---- MODULE Spec2Model ----
(***************************************************************************)
(* Model of the campaign lifecycle (CampaignsService and the Campaign      *)
(* entity), of API-usage admission (RateLimitingService.checkRateLimit),   *)
(* of EmailSendingService.sendEmail, of the mailbox lifecycle and warmup   *)
(* (MailboxesService and the Mailbox entity) and of campaign experiments   *)
(* (AbTestingService) of ColdMailSaaS.                                     *)
(*                                                                         *)
(* Dates are clock ticks; 0 stands for an unset (undefined) date.  Inputs  *)
(* of the service calls range over the declared TypeScript DTO types.      *)
(***************************************************************************)
EXTENDS Integers, Sequences, FiniteSets, TLC

VARIABLES now, campaigns, lastCall, usages, rl, admitLog, emails, sendLog,
          mailboxes, mbCall, abTesting, config, abCall, assignLog,
          inflight, started, tracked

vars == <<now, campaigns, lastCall, usages, rl, admitLog, emails, sendLog,
          mailboxes, mbCall, abTesting, config, abCall, assignLog,
          inflight, started, tracked>>
concVars == <<inflight, started, tracked>>
campaignVars == <<campaigns, lastCall>>
rateVars == <<usages, rl, admitLog>>
emailVars == <<emails, sendLog>>
mailboxVars == <<mailboxes, mbCall>>
abVars == <<abTesting, config, abCall, assignLog>>

(* ------------------------------ bounds --------------------------------- *)
MaxTime == 2
MaxCalls == 4
MaxEmails == 3
Limit == 2
WindowMs == 1
MailboxMaxEmailsPerMinute == 2
MaxEvents == 2
MaxOps == 3

CampaignIds == {"c1"}

(* ----------------------- CampaignStatus (enum) -------------------------- *)
DRAFT == "draft"
SCHEDULED == "scheduled"
ACTIVE == "active"
PAUSED == "paused"
COMPLETED == "completed"
CANCELLED == "cancelled"
FAILED == "failed"

CampaignStatus == {DRAFT, SCHEDULED, ACTIVE, PAUSED, COMPLETED, CANCELLED, FAILED}

(* A row of the campaigns table is a record; an id that was never saved is  *)
(* NotCreated and an id whose row was removed is Removed (uuids are never   *)
(* reused).                                                                 *)
NotCreated == [status |-> "none"]
Removed == [status |-> "removed"]
Exists(c) == campaigns[c].status \in CampaignStatus

(* ---------------------------- contact lists ----------------------------- *)
(* ContactList rows: "l1" holds 1 contact, "l2" holds 5; "gone" names a row *)
(* that contactListRepository.findOne does not find.                        *)
ListIds == {"l1", "l2", "gone"}
ListFound(l) == l \in {"l1", "l2"}
ListTotalContacts(l) == IF l = "l1" THEN 1 ELSE IF l = "l2" THEN 5 ELSE 0
ListCanSendEmails(l) == ListFound(l) /\ ListTotalContacts(l) > 0

(* campaign.targeting: defined = FALSE is an undefined targeting (or one    *)
(* without contactListIds); maxContacts = 0 is an absent (falsy) cap.       *)
NoTargeting == [defined |-> FALSE, contactListIds |-> <<>>, filters |-> FALSE, maxContacts |-> 0]
T(ids, f, m) == [defined |-> TRUE, contactListIds |-> ids, filters |-> f, maxContacts |-> m]
TargetingInputs ==
  { NoTargeting,
    T(<<>>, FALSE, 0),
    T(<<"l1">>, FALSE, 0),
    T(<<"l1">>, TRUE, 0),
    T(<<"l1", "l2">>, FALSE, 0),
    T(<<"l1", "l2">>, TRUE, 2),
    T(<<"gone">>, FALSE, 0),
    T(<<"l1">>, FALSE, -1) }

(* Math.floor(totalContacts * 0.8) on a non-negative integer *)
Floor80(n) == (n * 8) \div 10

RECURSIVE SumLists(_)
SumLists(ids) ==
  IF ids = <<>> THEN 0
  ELSE (IF ListFound(Head(ids)) THEN ListTotalContacts(Head(ids)) ELSE 0) + SumLists(Tail(ids))

CalculateTotalContacts(campaign) ==
  IF ~campaign.targeting.defined THEN 0
  ELSE LET t0 == SumLists(campaign.targeting.contactListIds)
           t1 == IF campaign.targeting.filters THEN Floor80(t0) ELSE t0
           mc == campaign.targeting.maxContacts
       IN IF mc # 0 /\ t1 > mc THEN mc ELSE t1

(* ------------------------ Campaign computed getters ---------------------- *)
canStart(campaign) == campaign.status = DRAFT \/ campaign.status = SCHEDULED
canPause(campaign) == campaign.status = ACTIVE
(* mutant: resume also allowed while active *)
canResume_OrActive(campaign) == campaign.status = PAUSED \/ campaign.status = ACTIVE
canResume(campaign) == campaign.status = PAUSED
(* mutant: PAUSED missing from the list *)
canCancel_WithoutPaused(campaign) == campaign.status \in {DRAFT, SCHEDULED, ACTIVE}
canCancel(campaign) == campaign.status \in {DRAFT, SCHEDULED, ACTIVE, PAUSED}

(* limits.defined = FALSE is an undefined limits column; rates are in       *)
(* hundredths of a percent.                                                 *)
NoLimits == [defined |-> FALSE, maxBounceRate |-> 0, maxComplaintRate |-> 0, maxUnsubscribeRate |-> 0]
ZeroMetrics == [bounceRate |-> 0, complaintRate |-> 0, unsubscribeRate |-> 0]
hasReachedLimits(campaign) ==
  IF ~campaign.limits.defined THEN FALSE
  ELSE \/ campaign.metrics.bounceRate > campaign.limits.maxBounceRate
       \/ campaign.metrics.complaintRate > campaign.limits.maxComplaintRate
       \/ campaign.metrics.unsubscribeRate > campaign.limits.maxUnsubscribeRate

(* --------------------------- service calls ------------------------------ *)
(* lastCall is the outcome of the most recent service call: ok = FALSE is a *)
(* thrown exception (findById's NotFoundException included); before is the  *)
(* status of the row before the call ("none" for createCampaign).           *)
NoCall == [op |-> "none", id |-> "none", ok |-> FALSE, before |-> "none"]
Call(op, c, ok, before) == [op |-> op, id |-> c, ok |-> ok, before |-> before]

ScheduledAtInputs == 0 .. (MaxTime + 1)

(* createCampaign: valid = the organization, user and mailbox checks pass   *)
CreateValidationPasses(valid, targeting) ==
  /\ valid
  /\ targeting.defined =>
       \A i \in 1 .. Len(targeting.contactListIds) : ListCanSendEmails(targeting.contactListIds[i])

CreatedStatus(scheduledAt) == IF scheduledAt # 0 THEN SCHEDULED ELSE DRAFT

createCampaign(c, valid, targeting, scheduledAt) ==
  /\ campaigns[c] = NotCreated
  /\ IF CreateValidationPasses(valid, targeting)
     THEN /\ campaigns' = [campaigns EXCEPT ![c] =
                 [status |-> CreatedStatus(scheduledAt),
                  targeting |-> targeting,
                  scheduledAt |-> scheduledAt,
                  startedAt |-> 0,
                  completedAt |-> 0,
                  progress |-> [totalContacts |-> 0, processedContacts |-> 0],
                  limits |-> NoLimits,
                  metrics |-> ZeroMetrics]]
          /\ lastCall' = Call("create", c, TRUE, "none")
     ELSE /\ lastCall' = Call("create", c, FALSE, "none")
          /\ UNCHANGED campaigns
  /\ UNCHANGED <<now, rateVars, emailVars, mailboxVars, abVars, concVars>>

UpdateRejected(campaign) == campaign.status = ACTIVE \/ campaign.status = COMPLETED

UpdatedStatus(campaign, scheduledAt) == IF scheduledAt # 0 THEN SCHEDULED ELSE campaign.status

(* updateCampaignDto: hasTargeting / targeting and scheduledAt (0 = absent) *)
updateCampaign(c, hasTargeting, targeting, scheduledAt) ==
  /\ LET campaign == campaigns[c] IN
     IF ~Exists(c) \/ UpdateRejected(campaign)
     THEN /\ lastCall' = Call("update", c, FALSE, campaign.status)
          /\ UNCHANGED campaigns
     ELSE /\ campaigns' = [campaigns EXCEPT ![c] =
                 [campaign EXCEPT
                    !.targeting = IF hasTargeting THEN targeting ELSE @,
                    !.scheduledAt = IF scheduledAt # 0 THEN scheduledAt ELSE @,
                    !.status = UpdatedStatus(campaign, scheduledAt)]]
          /\ lastCall' = Call("update", c, TRUE, campaign.status)
  /\ UNCHANGED <<now, rateVars, emailVars, mailboxVars, abVars, concVars>>

DeleteRejected(campaign) == campaign.status = ACTIVE

deleteCampaign(c) ==
  /\ LET campaign == campaigns[c] IN
     IF ~Exists(c) \/ DeleteRejected(campaign)
     THEN /\ lastCall' = Call("delete", c, FALSE, campaign.status)
          /\ UNCHANGED campaigns
     ELSE /\ campaigns' = [campaigns EXCEPT ![c] = Removed]
          /\ lastCall' = Call("delete", c, TRUE, campaign.status)
  /\ UNCHANGED <<now, rateVars, emailVars, mailboxVars, abVars, concVars>>

NoContacts(totalContacts) == totalContacts = 0

startCampaign(c) ==
  /\ LET campaign == campaigns[c]
         totalContacts == CalculateTotalContacts(campaign)
     IN
     IF ~Exists(c) \/ ~canStart(campaign) \/ NoContacts(totalContacts)
     THEN /\ lastCall' = Call("start", c, FALSE, campaign.status)
          /\ UNCHANGED campaigns
     ELSE /\ campaigns' = [campaigns EXCEPT ![c] =
                 [campaign EXCEPT
                    !.status = ACTIVE,
                    !.startedAt = now,
                    !.progress = [totalContacts |-> totalContacts, processedContacts |-> 0]]]
          /\ lastCall' = Call("start", c, TRUE, campaign.status)
  /\ UNCHANGED <<now, rateVars, emailVars, mailboxVars, abVars, concVars>>

pauseCampaign(c) ==
  /\ LET campaign == campaigns[c] IN
     IF ~Exists(c) \/ ~canPause(campaign)
     THEN /\ lastCall' = Call("pause", c, FALSE, campaign.status)
          /\ UNCHANGED campaigns
     ELSE /\ campaigns' = [campaigns EXCEPT ![c] = [campaign EXCEPT !.status = PAUSED]]
          /\ lastCall' = Call("pause", c, TRUE, campaign.status)
  /\ UNCHANGED <<now, rateVars, emailVars, mailboxVars, abVars, concVars>>

resumeCampaign(c) ==
  /\ LET campaign == campaigns[c] IN
     IF ~Exists(c) \/ ~canResume(campaign)
     THEN /\ lastCall' = Call("resume", c, FALSE, campaign.status)
          /\ UNCHANGED campaigns
     ELSE /\ campaigns' = [campaigns EXCEPT ![c] = [campaign EXCEPT !.status = ACTIVE]]
          /\ lastCall' = Call("resume", c, TRUE, campaign.status)
  /\ UNCHANGED <<now, rateVars, emailVars, mailboxVars, abVars, concVars>>

cancelCampaign(c) ==
  /\ LET campaign == campaigns[c] IN
     IF ~Exists(c) \/ ~canCancel(campaign)
     THEN /\ lastCall' = Call("cancel", c, FALSE, campaign.status)
          /\ UNCHANGED campaigns
     ELSE /\ campaigns' = [campaigns EXCEPT ![c] = [campaign EXCEPT !.status = CANCELLED]]
          /\ lastCall' = Call("cancel", c, TRUE, campaign.status)
  /\ UNCHANGED <<now, rateVars, emailVars, mailboxVars, abVars, concVars>>

(* The wall clock (new Date()) moves on between calls. *)
Tick ==
  /\ now < MaxTime
  /\ now' = now + 1
  /\ UNCHANGED <<campaignVars, rateVars, emailVars, mailboxVars, abVars, concVars>>

CreateCampaign == \E c \in CampaignIds, valid \in BOOLEAN, t \in TargetingInputs, s \in ScheduledAtInputs :
                    createCampaign(c, valid, t, s)
UpdateCampaign ==
  \/ \E c \in CampaignIds, s \in ScheduledAtInputs : updateCampaign(c, FALSE, NoTargeting, s)
  \/ \E c \in CampaignIds, t \in TargetingInputs, s \in ScheduledAtInputs : updateCampaign(c, TRUE, t, s)
DeleteCampaign == \E c \in CampaignIds : deleteCampaign(c)
StartCampaign == \E c \in CampaignIds : startCampaign(c)
PauseCampaign == \E c \in CampaignIds : pauseCampaign(c)
ResumeCampaign == \E c \in CampaignIds : resumeCampaign(c)
CancelCampaign == \E c \in CampaignIds : cancelCampaign(c)

InitCampaigns ==
  /\ now = 1
  /\ campaigns = [c \in CampaignIds |-> NotCreated]
  /\ lastCall = NoCall

(* ------------------- RateLimitingService.checkRateLimit ------------------ *)
(* usages is the api_usage table restricted to one (userId, endpoint) key:  *)
(* a sequence of rows [timestamp, count], the index being the row id.  The  *)
(* service reads and writes usage.count, which the model takes as stored.   *)
(* rl[p] is the position of caller p inside checkRateLimit: pc "idle" (not  *)
(* in a call), "create" (findOne found no row; save of a new row pending)   *)
(* or "save" (count incremented locally; save of the row pending).          *)
Procs == {"p1", "p2"}
Times == 1 .. MaxTime

IdleCaller == [pc |-> "idle", now |-> 0, row |-> 0, count |-> 0, seen |-> 0, result |-> "none"]

WindowStart(t) == t - WindowMs

(* findOne({ where: { userId, endpoint, timestamp: windowStart } }) *)
FindUsage(t) == {i \in DOMAIN usages : usages[i].timestamp = WindowStart(t)}

LimitReached(count) == count >= Limit

Admit(t) == [admitLog EXCEPT !.admitted[t] = @ + 1]
Refuse(t) == [admitLog EXCEPT !.refused[t] = @ + 1]

(* const now = new Date(); await findOne(...); and the synchronous code up  *)
(* to the next await                                                        *)
checkRateLimitRead(p) ==
  /\ rl[p].pc = "idle"
  /\ admitLog.started < MaxCalls
  /\ IF FindUsage(now) = {}
     THEN /\ rl' = [rl EXCEPT ![p] = [pc |-> "create", now |-> now, row |-> 0, count |-> 1,
                                      seen |-> 0, result |-> "none"]]
          /\ admitLog' = [admitLog EXCEPT !.started = @ + 1]
          /\ UNCHANGED usages
     ELSE \E i \in FindUsage(now) :
            IF LimitReached(usages[i].count)
            THEN /\ rl' = [rl EXCEPT ![p] = [pc |-> "idle", now |-> now, row |-> i, count |-> usages[i].count,
                                             seen |-> usages[i].count, result |-> "refused"]]
                 /\ admitLog' = [Refuse(now) EXCEPT !.started = @ + 1]
                 /\ UNCHANGED usages
            ELSE /\ rl' = [rl EXCEPT ![p] = [pc |-> "save", now |-> now, row |-> i, count |-> usages[i].count + 1,
                                             seen |-> usages[i].count, result |-> "none"]]
                 /\ admitLog' = [admitLog EXCEPT !.started = @ + 1]
                 /\ UNCHANGED usages
  /\ UNCHANGED <<now, campaignVars, emailVars, mailboxVars, abVars, concVars>>

(* await save({ userId, endpoint, timestamp: now, count: 1 }); return true *)
checkRateLimitCreate(p) ==
  /\ rl[p].pc = "create"
  /\ usages' = Append(usages, [timestamp |-> rl[p].now, count |-> 1])
  /\ rl' = [rl EXCEPT ![p].pc = "idle", ![p].result = "admitted"]
  /\ admitLog' = Admit(rl[p].now)
  /\ UNCHANGED <<now, campaignVars, emailVars, mailboxVars, abVars, concVars>>

(* await save(usage); return true *)
checkRateLimitSave(p) ==
  /\ rl[p].pc = "save"
  /\ usages' = [usages EXCEPT ![rl[p].row].count = rl[p].count]
  /\ rl' = [rl EXCEPT ![p].pc = "idle", ![p].result = "admitted"]
  /\ admitLog' = Admit(rl[p].now)
  /\ UNCHANGED <<now, campaignVars, emailVars, mailboxVars, abVars, concVars>>

CheckRateLimitRead == \E p \in Procs : checkRateLimitRead(p)
CheckRateLimitCreate == \E p \in Procs : checkRateLimitCreate(p)
CheckRateLimitSave == \E p \in Procs : checkRateLimitSave(p)

(* -------------------- EmailSendingService.sendEmail ---------------------- *)
(* emails is the emails table: rows [mailboxId, status, sentAt]; sendLog is *)
(* the EmailResult of the last call with the row it created (0 = none).     *)
MailboxIds == {"m1"}
MailboxInputs == MailboxIds \cup {"missing"}
NoResult == [success |-> FALSE, email |-> 0]

(* valid = validateSendOptions passes; delivered = transporter.sendMail     *)
(* resolves                                                                 *)
sendEmail(m, valid, delivered) ==
  /\ Len(emails) < MaxEmails
  /\ IF ~valid \/ m \notin MailboxIds
     THEN /\ sendLog' = NoResult
          /\ UNCHANGED emails
     ELSE IF ~delivered
     THEN /\ emails' = Append(emails, [mailboxId |-> m, status |-> "pending", sentAt |-> 0])
          /\ sendLog' = [success |-> FALSE, email |-> Len(emails) + 1]
     ELSE /\ emails' = Append(emails, [mailboxId |-> m, status |-> "sent", sentAt |-> now])
          /\ sendLog' = [success |-> TRUE, email |-> Len(emails) + 1]
  /\ UNCHANGED <<now, campaignVars, rateVars, mailboxVars, abVars, concVars>>

SendEmail == \E m \in MailboxInputs, valid \in BOOLEAN, delivered \in BOOLEAN : sendEmail(m, valid, delivered)

(* the window of WindowMs ticks that opens at t *)
Window(t) == t .. (t + WindowMs - 1)

SentInWindow(m, t) ==
  Cardinality({i \in DOMAIN emails : emails[i].mailboxId = m /\ emails[i].status = "sent" /\ emails[i].sentAt \in Window(t)})

RECURSIVE SumAdmitted(_)
SumAdmitted(ts) ==
  IF ts = {} THEN 0
  ELSE LET t == CHOOSE x \in ts : TRUE IN admitLog.admitted[t] + SumAdmitted(ts \ {t})

AdmittedInWindow(t) == SumAdmitted(Window(t) \cap Times)

InitRate ==
  /\ usages = <<>>
  /\ rl = [p \in Procs |-> IdleCaller]
  /\ admitLog = [started |-> 0, admitted |-> [t \in 1 .. MaxTime |-> 0], refused |-> [t \in 1 .. MaxTime |-> 0]]

InitEmail ==
  /\ emails = <<>>
  /\ sendLog = NoResult

(* --------------------------- MailboxesService ---------------------------- *)
(* mailboxes is the mailboxes table, keyed by the mailbox (its id and its   *)
(* email, which is unique per organization).  A row keeps the columns the   *)
(* service decides on: status, isActive, type, whether the credentials of   *)
(* its type are complete and, of sendingConfig, the warmup fields; date     *)
(* columns are left out.  mbCall is the outcome of the last                 *)
(* MailboxesService call: ok = it returned, ~ok = it threw.                 *)
PENDING == "pending"
SUSPENDED == "suspended"
WARMING_UP == "warming_up"

MailboxStatus == {PENDING, ACTIVE, SUSPENDED, FAILED, WARMING_UP}

SMTP == "smtp"
SES == "ses"
MailboxTypeInputs == {SMTP, SES}

NoMailbox == [status |-> "none"]
MailboxExists(m) == mailboxes[m].status \in MailboxStatus

DefaultSendingConfig ==
  [maxEmailsPerDay |-> 1000, warmupEnabled |-> FALSE, warmupIncrement |-> 10, currentWarmupRate |-> 50]

SC(cap, enabled, increment, rate) ==
  [maxEmailsPerDay |-> cap, warmupEnabled |-> enabled, warmupIncrement |-> increment, currentWarmupRate |-> rate]

(* sendingConfig values of an UpdateMailboxDto (declared any) *)
SendingConfigInputs ==
  { SC(1000, TRUE, 10, 50),
    SC(100, TRUE, 30, 50),
    SC(100, TRUE, 30, 20),
    SC(40, TRUE, 30, 50),
    SC(100, FALSE, 30, 50) }

NoMbCall == [op |-> "none", id |-> "none", ok |-> FALSE, before |-> NoMailbox]
MbCall(op, m, ok, before) == [op |-> op, id |-> m, ok |-> ok, before |-> before]

(* connOk = transporter.verify() resolves *)
testMailboxConnection(type, connOk) == type = SMTP /\ connOk

(* valid = organization, domain, SMTP configuration and API key checks pass; *)
(* region = providerSettings carries a region (not checked on creation)     *)
createMailbox(m, valid, type, connOk, region) ==
  /\ IF ~valid \/ MailboxExists(m)
     THEN /\ mbCall' = MbCall("create", m, FALSE, mailboxes[m])
          /\ UNCHANGED mailboxes
     ELSE /\ mailboxes' = [mailboxes EXCEPT ![m] =
                 [status |-> IF type = SMTP
                             THEN (IF testMailboxConnection(type, connOk) THEN ACTIVE ELSE FAILED)
                             ELSE ACTIVE,
                  isActive |-> TRUE,
                  type |-> type,
                  credentials |-> (type = SMTP \/ region),
                  sendingConfig |-> DefaultSendingConfig]]
          /\ mbCall' = MbCall("create", m, TRUE, mailboxes[m])
  /\ UNCHANGED <<now, campaignVars, rateVars, emailVars, abVars, concVars>>

(* smtp = the dto carries smtpHost or smtpPassword; hasConfig = it carries  *)
(* sendingConfig, which replaces the stored column                          *)
updateMailbox(m, smtp, connOk, hasConfig, sendingConfig) ==
  /\ IF ~MailboxExists(m)
     THEN /\ mbCall' = MbCall("update", m, FALSE, mailboxes[m])
          /\ UNCHANGED mailboxes
     ELSE /\ mailboxes' = [mailboxes EXCEPT ![m] =
                 [@ EXCEPT !.status = IF smtp
                                      THEN (IF testMailboxConnection(mailboxes[m].type, connOk)
                                            THEN ACTIVE ELSE FAILED)
                                      ELSE @,
                           !.sendingConfig = IF hasConfig THEN sendingConfig ELSE @]]
          /\ mbCall' = MbCall("update", m, TRUE, mailboxes[m])
  /\ UNCHANGED <<now, campaignVars, rateVars, emailVars, abVars, concVars>>

deleteMailbox(m) ==
  /\ IF ~MailboxExists(m)
     THEN /\ mbCall' = MbCall("delete", m, FALSE, mailboxes[m])
          /\ UNCHANGED mailboxes
     ELSE /\ mailboxes' = [mailboxes EXCEPT ![m] = NoMailbox]
          /\ mbCall' = MbCall("delete", m, TRUE, mailboxes[m])
  /\ UNCHANGED <<now, campaignVars, rateVars, emailVars, abVars, concVars>>

(* the controller calls it with 'suspended' (suspend) and 'active'          *)
(* (activate)                                                               *)
updateMailboxStatus(m, status) ==
  /\ IF ~MailboxExists(m)
     THEN /\ mbCall' = MbCall(status, m, FALSE, mailboxes[m])
          /\ UNCHANGED mailboxes
     ELSE /\ mailboxes' = [mailboxes EXCEPT ![m].status = status]
          /\ mbCall' = MbCall(status, m, TRUE, mailboxes[m])
  /\ UNCHANGED <<now, campaignVars, rateVars, emailVars, abVars, concVars>>

Min(a, b) == IF a <= b THEN a ELSE b

NewRate(sendingConfig) ==
  Min(sendingConfig.currentWarmupRate + sendingConfig.warmupIncrement, sendingConfig.maxEmailsPerDay)

WarmupRejected(mailbox) == mailbox.status # ACTIVE \/ ~mailbox.sendingConfig.warmupEnabled

warmupMailbox(m) ==
  /\ IF ~MailboxExists(m) \/ WarmupRejected(mailboxes[m])
     THEN /\ mbCall' = MbCall("warmup", m, FALSE, mailboxes[m])
          /\ UNCHANGED mailboxes
     ELSE /\ mailboxes' = [mailboxes EXCEPT ![m] =
                 [@ EXCEPT !.status = WARMING_UP,
                           !.sendingConfig.currentWarmupRate = NewRate(mailboxes[m].sendingConfig)]]
          /\ mbCall' = MbCall("warmup", m, TRUE, mailboxes[m])
  /\ UNCHANGED <<now, campaignVars, rateVars, emailVars, abVars, concVars>>

(* Mailbox getters and the selection of getAvailableMailboxes *)
isReady(mailbox) == mailbox.isActive /\ mailbox.status = ACTIVE
hasValidCredentials(mailbox) == mailbox.credentials
canSendEmails(mailbox) == isReady(mailbox) /\ hasValidCredentials(mailbox)
currentDailyLimit(mailbox) ==
  IF mailbox.sendingConfig.warmupEnabled
  THEN mailbox.sendingConfig.currentWarmupRate
  ELSE mailbox.sendingConfig.maxEmailsPerDay
getAvailableMailboxes ==
  {m \in MailboxIds : MailboxExists(m) /\ mailboxes[m].status = ACTIVE /\ mailboxes[m].isActive}

CreateMailbox ==
  \E m \in MailboxIds, valid \in BOOLEAN, type \in MailboxTypeInputs, connOk \in BOOLEAN, region \in BOOLEAN :
    createMailbox(m, valid, type, connOk, region)
UpdateMailbox ==
  \/ \E m \in MailboxIds, smtp \in BOOLEAN, connOk \in BOOLEAN :
       updateMailbox(m, smtp, connOk, FALSE, DefaultSendingConfig)
  \/ \E m \in MailboxIds, sendingConfig \in SendingConfigInputs :
       updateMailbox(m, FALSE, FALSE, TRUE, sendingConfig)
DeleteMailbox == \E m \in MailboxIds : deleteMailbox(m)
SuspendMailbox == \E m \in MailboxIds : updateMailboxStatus(m, SUSPENDED)
ActivateMailbox == \E m \in MailboxIds : updateMailboxStatus(m, ACTIVE)
WarmupMailbox == \E m \in MailboxIds : warmupMailbox(m)

InitMailbox ==
  /\ mailboxes = [m \in MailboxIds |-> NoMailbox]
  /\ mbCall = NoMbCall

(* ---------------------------- AbTestingService --------------------------- *)
(* abTesting[c] is the abTesting column of campaign c and config[c] its     *)
(* config column, of which two content fields and one other field are kept  *)
(* (createCampaign stores the config of its dto, here BaseConfig).          *)
(* Weights and random draws are in thousandths of a                         *)
(* percent, rates and scores in hundredths.  abCall is the outcome of the   *)
(* last AbTestingService call: result is the variant id it returned.        *)
(* assignLog[c][k] is the first variant id assignVariantToContact returned  *)
(* for contact k of campaign c.                                             *)
Pct(p) == p * 1000
Abs(x) == IF x < 0 THEN 0 - x ELSE x

Contacts == {"k1"}
VariantId(i) == <<"variant", i>>
NoVariant == <<"variant", 0>>
VariantIdInputs == {VariantId(i) : i \in 1 .. 3}

Perf(defined, sent, opened, bounced) ==
  [defined |-> defined, sent |-> sent, opened |-> opened, clicked |-> 0, replied |-> 0,
   unsubscribed |-> 0, bounced |-> bounced]
NoPerformance == Perf(FALSE, 0, 0, 0)
ZeroPerformance == Perf(TRUE, 0, 0, 0)

(* a content field of a variant's config is Undefined, empty or a value *)
Undefined == "undefined"
Truthy(x) == x # Undefined /\ x # ""
BaseConfig == [subject |-> "base", htmlContent |-> "base", trackingEnabled |-> TRUE]
NoAbTest == [enabled |-> FALSE]

VH(name, weight, subject, htmlContent) ==
  [name |-> name, weight |-> weight, subject |-> subject, htmlContent |-> htmlContent]
V(name, weight, subject) == VH(name, weight, subject, Undefined)
TC(variants, testSize, winnerCriteria) ==
  [variants |-> variants, testSize |-> testSize, winnerCriteria |-> winnerCriteria]

TestConfigInputs ==
  { TC(<<V("A", Pct(60), "sA"), V("B", Pct(40), "sB")>>, 1, "open_rate"),
    TC(<<VH("A", Pct(60), "sA", "hA"), VH("B", Pct(40), "", "hB")>>, 2, "open_rate"),
    TC(<<V("A", Pct(60) + 5, "sA"), V("B", Pct(40), "sB")>>, 1, "open_rate"),
    TC(<<V("A", Pct(150), "sA"), V("B", 0 - Pct(50), "sB")>>, 1, "open_rate"),
    TC(<<V("A", Pct(60), "sA"), V("B", Pct(30), "sB")>>, 1, "open_rate"),
    TC(<<V("A", Pct(100), "sA")>>, 1, "open_rate"),
    TC(<<V("A", Pct(20), "sA"), V("B", Pct(20), "sB"), V("C", Pct(20), "sA"),
         V("D", Pct(20), "sB"), V("E", Pct(20), "sA")>>, 1, "open_rate"),
    TC(<<V("A", Pct(20), "sA"), V("B", Pct(20), "sB"), V("C", Pct(20), "sA"),
         V("D", Pct(20), "sB"), V("E", Pct(10), "sA"), V("F", Pct(10), "sB")>>, 1, "open_rate") }

RECURSIVE SumWeights(_)
SumWeights(variants) ==
  IF variants = <<>> THEN 0 ELSE Head(variants).weight + SumWeights(Tail(variants))

NoAbCall == [op |-> "none", id |-> "none", ok |-> FALSE, result |-> NoVariant]
AbCall(op, c, ok, result) == [op |-> op, id |-> c, ok |-> ok, result |-> result]
TrackCall(c, variantId, event) ==
  [op |-> "track", id |-> c, ok |-> TRUE, result |-> variantId, event |-> event]
AssignCall(c, k, ok, result, random) ==
  [op |-> "assign", id |-> c, contact |-> k, ok |-> ok, result |-> result, random |-> random]

AbTestEnabled(c) == Exists(c) /\ abTesting[c].enabled

CreateAbTestRejected(campaign, testConfig) ==
  \/ campaign.status # DRAFT
  \/ Len(testConfig.variants) < 2
  \/ Len(testConfig.variants) > 5
  \/ Abs(SumWeights(testConfig.variants) - Pct(100)) > 10

StoredExperiment(testConfig) ==
  [enabled |-> TRUE,
   variants |-> [i \in 1 .. Len(testConfig.variants) |->
                   [id |-> VariantId(i),
                    name |-> testConfig.variants[i].name,
                    weight |-> testConfig.variants[i].weight,
                    config |-> [subject |-> testConfig.variants[i].subject,
                                htmlContent |-> testConfig.variants[i].htmlContent],
                    performance |-> NoPerformance]],
   testSize |-> testConfig.testSize,
   winnerCriteria |-> testConfig.winnerCriteria,
   winnerSelected |-> NoVariant]

createAbTest(c, testConfig) ==
  /\ IF ~Exists(c) \/ CreateAbTestRejected(campaigns[c], testConfig)
     THEN /\ abCall' = AbCall("createAbTest", c, FALSE, NoVariant)
          /\ UNCHANGED abTesting
     ELSE /\ abTesting' = [abTesting EXCEPT ![c] = StoredExperiment(testConfig)]
          /\ abCall' = AbCall("createAbTest", c, TRUE, NoVariant)
  /\ UNCHANGED <<now, campaignVars, rateVars, emailVars, mailboxVars, config, assignLog, concVars>>

(* the weighted selection: the first variant whose cumulative weight is at  *)
(* least the draw, the first variant when there is none                     *)
RECURSIVE PickVariant_Strict(_, _, _)
PickVariant_Strict(variants, random, cumulativeWeight) ==
  IF variants = <<>> THEN NoVariant
  ELSE IF random < cumulativeWeight + Head(variants).weight THEN Head(variants).id
  ELSE PickVariant_Strict(Tail(variants), random, cumulativeWeight + Head(variants).weight)
RECURSIVE PickVariant(_, _, _)
PickVariant(variants, random, cumulativeWeight) ==
  IF variants = <<>> THEN NoVariant
  ELSE IF random <= cumulativeWeight + Head(variants).weight THEN Head(variants).id
  ELSE PickVariant(Tail(variants), random, cumulativeWeight + Head(variants).weight)

AssignedVariant(variants, random) ==
  LET picked == PickVariant(variants, random, 0)
  IN IF picked = NoVariant THEN variants[1].id ELSE picked

(* random = Math.random() * 100 *)
RandomDraws == {0, Pct(50), Pct(70), Pct(100) - 1}
AssignDraws == {0, 1, Pct(50), Pct(60) - 1, Pct(60), Pct(60) + 1, Pct(100) - 5, Pct(100) - 1}

assignVariantToContact(c, k, random) ==
  /\ IF ~AbTestEnabled(c)
     THEN /\ abCall' = AssignCall(c, k, FALSE, NoVariant, 0)
          /\ UNCHANGED assignLog
     ELSE LET id == AssignedVariant(abTesting[c].variants, random) IN
          /\ abCall' = AssignCall(c, k, TRUE, id, random)
          /\ assignLog' = IF assignLog[c][k] = NoVariant
                          THEN [assignLog EXCEPT ![c][k] = id] ELSE assignLog
  /\ UNCHANGED <<now, campaignVars, rateVars, emailVars, mailboxVars, abTesting, config, concVars>>

Events == {"sent", "opened", "bounced"}
AllEvents == {"sent", "opened", "clicked", "replied", "unsubscribed", "bounced"}

RECURSIVE TotalEvents(_)
TotalEvents(variants) ==
  IF variants = <<>> THEN 0
  ELSE Head(variants).performance.sent + Head(variants).performance.opened
       + Head(variants).performance.clicked + Head(variants).performance.replied
       + Head(variants).performance.unsubscribed + Head(variants).performance.bounced
       + TotalEvents(Tail(variants))

FindVariant(variants, variantId) == {i \in DOMAIN variants : variants[i].id = variantId}

Increment_SentToo(performance, event) ==
  LET p == IF performance.defined THEN performance ELSE ZeroPerformance
  IN IF event = "sent" THEN [p EXCEPT !.sent = @ + 1]
     ELSE IF event = "opened" THEN [p EXCEPT !.opened = @ + 1, !.sent = @ + 1]
     ELSE IF event = "clicked" THEN [p EXCEPT !.clicked = @ + 1]
     ELSE IF event = "replied" THEN [p EXCEPT !.replied = @ + 1]
     ELSE IF event = "unsubscribed" THEN [p EXCEPT !.unsubscribed = @ + 1]
     ELSE IF event = "bounced" THEN [p EXCEPT !.bounced = @ + 1]
     ELSE p
Increment(performance, event) ==
  LET p == IF performance.defined THEN performance ELSE ZeroPerformance
  IN IF event = "sent" THEN [p EXCEPT !.sent = @ + 1]
     ELSE IF event = "opened" THEN [p EXCEPT !.opened = @ + 1]
     ELSE IF event = "clicked" THEN [p EXCEPT !.clicked = @ + 1]
     ELSE IF event = "replied" THEN [p EXCEPT !.replied = @ + 1]
     ELSE IF event = "unsubscribed" THEN [p EXCEPT !.unsubscribed = @ + 1]
     ELSE IF event = "bounced" THEN [p EXCEPT !.bounced = @ + 1]
     ELSE p

trackVariantPerformance(c, variantId, event) ==
  /\ IF ~AbTestEnabled(c)
     THEN UNCHANGED abTesting
     ELSE /\ TotalEvents(abTesting[c].variants) < MaxEvents
          /\ IF FindVariant(abTesting[c].variants, variantId) = {}
             THEN UNCHANGED abTesting
             ELSE LET i == CHOOSE j \in FindVariant(abTesting[c].variants, variantId) : TRUE
                  IN abTesting' = [abTesting EXCEPT ![c].variants[i].performance = Increment(@, event)]
  /\ abCall' = TrackCall(c, variantId, event)
  /\ UNCHANGED <<now, campaignVars, rateVars, emailVars, mailboxVars, config, assignLog, concVars>>

ApplyVariantConfig(campaignConfig, variantConfig) ==
  [campaignConfig EXCEPT
     !.subject = IF Truthy(variantConfig.subject) THEN variantConfig.subject ELSE @,
     !.htmlContent = IF Truthy(variantConfig.htmlContent) THEN variantConfig.htmlContent ELSE @]

selectWinner(c, variantId) ==
  /\ IF ~AbTestEnabled(c)
     THEN /\ abCall' = AbCall("selectWinner", c, FALSE, variantId)
          /\ UNCHANGED <<abTesting, config>>
     ELSE IF FindVariant(abTesting[c].variants, variantId) = {}
     THEN /\ abCall' = AbCall("selectWinner", c, FALSE, variantId)
          /\ UNCHANGED <<abTesting, config>>
     ELSE LET i == CHOOSE j \in FindVariant(abTesting[c].variants, variantId) : TRUE
              variant == abTesting[c].variants[i]
          IN /\ abTesting' = [abTesting EXCEPT ![c].winnerSelected = variantId]
             /\ config' = [config EXCEPT ![c] = ApplyVariantConfig(@, variant.config)]
             /\ abCall' = AbCall("selectWinner", c, TRUE, variantId)
  /\ UNCHANGED <<now, campaignVars, rateVars, emailVars, mailboxVars, assignLog, concVars>>

(* getAbTestStatus *)
RECURSIVE TotalSent(_)
TotalSent(variants) ==
  IF variants = <<>> THEN 0 ELSE Head(variants).performance.sent + TotalSent(Tail(variants))

isComplete(ab) == TotalSent(ab.variants) >= ab.testSize
canSelectWinner(ab) == isComplete(ab) /\ ab.winnerSelected = NoVariant

(* Math.round(n / sent * 100 * 100) / 100, in hundredths *)
RoundRate(n, sent) == IF sent > 0 THEN (2 * n * 10000 + sent) \div (2 * sent) ELSE 0

calculateVariantMetrics(performance) ==
  [openRate |-> RoundRate(performance.opened, performance.sent),
   clickRate |-> RoundRate(performance.clicked, performance.sent),
   replyRate |-> RoundRate(performance.replied, performance.sent),
   unsubscribeRate |-> RoundRate(performance.unsubscribed, performance.sent),
   bounceRate |-> RoundRate(performance.bounced, performance.sent),
   overallScore |-> 0]

Max(a, b) == IF a >= b THEN a ELSE b

(* the weights are tenths; Math.round(score * 100) / 100, in hundredths *)
calculateOverallScore(metrics, winnerCriteria) ==
  LET score ==
        IF winnerCriteria = "open_rate"
        THEN metrics.openRate * 4 + metrics.clickRate * 3 + metrics.replyRate * 3
        ELSE IF winnerCriteria = "click_rate"
        THEN metrics.clickRate * 5 + metrics.openRate * 3 + metrics.replyRate * 2
        ELSE IF winnerCriteria = "reply_rate"
        THEN metrics.replyRate * 6 + metrics.clickRate * 3 + metrics.openRate * 1
        ELSE IF winnerCriteria = "conversion_rate"
        THEN metrics.replyRate * 5 + metrics.clickRate * 3 + metrics.openRate * 2
        ELSE metrics.openRate * 3 + metrics.clickRate * 3 + metrics.replyRate * 4
      penalized == score - metrics.unsubscribeRate * 5 - metrics.bounceRate * 3
  IN Max(0, (penalized + 5) \div 10)

(* results.sort((a, b) => b.metrics.overallScore - a.metrics.overallScore), *)
(* a stable sort: of the results with the greatest key the earliest first   *)
RECURSIVE SortByOverallScore(_)
SortByOverallScore(results) ==
  IF results = <<>> THEN <<>>
  ELSE LET best == CHOOSE i \in DOMAIN results :
                     /\ \A j \in DOMAIN results : results[j].metrics.overallScore <= results[i].metrics.overallScore
                     /\ \A j \in 1 .. (i - 1) : results[j].metrics.overallScore < results[i].metrics.overallScore
           rest == [j \in 1 .. (Len(results) - 1) |-> IF j < best THEN results[j] ELSE results[j + 1]]
       IN <<results[best]>> \o SortByOverallScore(rest)

(* the results of analyzeAbTestResults; the score it computes is not stored *)
(* in the metrics of the result                                             *)
RECURSIVE CollectResults(_)
CollectResults(variants) ==
  IF variants = <<>> THEN <<>>
  ELSE LET variant == Head(variants) IN
       IF ~variant.performance.defined \/ variant.performance.sent = 0
       THEN CollectResults(Tail(variants))
       ELSE <<[variantId |-> variant.id,
               metrics |-> calculateVariantMetrics(variant.performance),
               sampleSize |-> variant.performance.sent]>> \o CollectResults(Tail(variants))

analyzeAbTestResults(ab) == SortByOverallScore(CollectResults(ab.variants))

(* the variant whose result has isWinner = true *)
AnalyzedWinner(ab) ==
  IF analyzeAbTestResults(ab) = <<>> THEN NoVariant ELSE analyzeAbTestResults(ab)[1].variantId

AnalyzeAbTestResults ==
  \E c \in CampaignIds :
    /\ abCall' = IF AbTestEnabled(c)
                 THEN AbCall("analyze", c, TRUE, AnalyzedWinner(abTesting[c]))
                 ELSE AbCall("analyze", c, FALSE, NoVariant)
    /\ UNCHANGED <<now, campaignVars, rateVars, emailVars, mailboxVars, abTesting, config, assignLog, concVars>>

CreateDraftCampaign == \E c \in CampaignIds : createCampaign(c, TRUE, T(<<"l1">>, FALSE, 0), 0)
CreateAbTest == \E c \in CampaignIds, testConfig \in TestConfigInputs : createAbTest(c, testConfig)
AssignVariantToContact ==
  \E c \in CampaignIds, k \in Contacts, random \in RandomDraws : assignVariantToContact(c, k, random)
TrackVariantPerformance ==
  \E c \in CampaignIds, variantId \in VariantIdInputs, event \in Events :
    trackVariantPerformance(c, variantId, event)
AssignAnyDraw ==
  \E c \in CampaignIds, k \in Contacts, random \in AssignDraws : assignVariantToContact(c, k, random)
TrackAnyEvent ==
  \E c \in CampaignIds, variantId \in VariantIdInputs, event \in AllEvents :
    trackVariantPerformance(c, variantId, event)
SelectWinner == \E c \in CampaignIds, variantId \in VariantIdInputs : selectWinner(c, variantId)

InitAbTest ==
  /\ abTesting = [c \in CampaignIds |-> NoAbTest]
  /\ config = [c \in CampaignIds |-> BaseConfig]
  /\ abCall = NoAbCall
  /\ assignLog = [c \in CampaignIds |-> [k \in Contacts |-> NoVariant]]

(* no request is in flight *)
Requests == {"r1", "r2"}
NoEntity == [row |-> NotCreated, abTesting |-> NoAbTest, config |-> BaseConfig]
IdleRequest == [pc |-> "idle", op |-> "none", id |-> "none", entity |-> NoEntity]
InitConc ==
  /\ inflight = [r \in Requests |-> IdleRequest]
  /\ started = 0
  /\ tracked = [c \in CampaignIds |-> 0]

Init == InitCampaigns /\ InitRate /\ InitEmail /\ InitMailbox /\ InitAbTest /\ InitConc

(* Experiments after tracking: the row createCampaign stores for a draft    *)
(* campaign, the experiment createAbTest stores for two variants, and       *)
(* counters that trackVariantPerformance calls have brought to the values   *)
(* of PerformanceInputs.                                                    *)
DraftCampaignRow ==
  [status |-> DRAFT,
   targeting |-> T(<<"l1">>, FALSE, 0),
   scheduledAt |-> 0,
   startedAt |-> 0,
   completedAt |-> 0,
   progress |-> [totalContacts |-> 0, processedContacts |-> 0],
   limits |-> NoLimits,
   metrics |-> ZeroMetrics]

PerformanceInputs ==
  {NoPerformance} \cup
  {p \in {Perf(TRUE, sent, opened, bounced) :
            sent \in {1, 80, 100}, opened \in {0, 40, 48}, bounced \in {0, 8}} :
     p.opened <= p.sent /\ p.bounced <= p.sent}

TrackedExperiment(performanceA, performanceB, winnerCriteria) ==
  [enabled |-> TRUE,
   variants |-> <<[id |-> VariantId(1), name |-> "A", weight |-> Pct(60),
                   config |-> [subject |-> "sA", htmlContent |-> Undefined],
                   performance |-> performanceA],
                  [id |-> VariantId(2), name |-> "B", weight |-> Pct(40),
                   config |-> [subject |-> "sB", htmlContent |-> Undefined],
                   performance |-> performanceB]>>,
   testSize |-> 1,
   winnerCriteria |-> winnerCriteria,
   winnerSelected |-> NoVariant]

(* experiments createAbTest accepts for a draft campaign *)
AssignConfigInputs ==
  { tc \in { TC(<<V("A", Pct(60), "sA"), V("B", Pct(40), "sB")>>, 1, "open_rate"),
             TC(<<V("A", Pct(60) - 5, "sA"), V("B", Pct(40), "sB")>>, 1, "open_rate"),
             TC(<<V("A", Pct(60) + 5, "sA"), V("B", Pct(40), "sB")>>, 1, "open_rate"),
             TC(<<V("A", 0, "sA"), V("B", Pct(100), "sB")>>, 1, "open_rate"),
             TC(<<V("A", 0, "sA"), V("B", Pct(100) - 5, "sB")>>, 1, "open_rate"),
             TC(<<V("A", Pct(100), "sA"), V("B", 0, "sB")>>, 1, "open_rate"),
             TC(<<V("A", Pct(50), "sA"), V("B", 0, "sB"), V("C", Pct(50), "sA")>>, 1, "open_rate"),
             TC(<<V("A", Pct(60), "sA"), V("B", Pct(30), "sB")>>, 1, "open_rate"),
             TC(<<V("A", Pct(20), "sA"), V("B", Pct(20), "sB"), V("C", Pct(20), "sA"),
                  V("D", Pct(20), "sB"), V("E", Pct(20), "sA")>>, 1, "open_rate") } :
      ~CreateAbTestRejected(DraftCampaignRow, tc) }

InitAssign ==
  /\ InitRate /\ InitEmail /\ InitMailbox /\ InitConc
  /\ now = 1
  /\ \E status \in {DRAFT, ACTIVE} :
       campaigns = [c \in CampaignIds |-> [DraftCampaignRow EXCEPT !.status = status]]
  /\ lastCall = Call("create", "c1", TRUE, "none")
  /\ \E testConfig \in AssignConfigInputs :
       abTesting = [c \in CampaignIds |-> StoredExperiment(testConfig)]
  /\ config = [c \in CampaignIds |-> BaseConfig]
  /\ abCall = NoAbCall
  /\ assignLog = [c \in CampaignIds |-> [k \in Contacts |-> NoVariant]]

InitAnalyze ==
  /\ InitRate /\ InitEmail /\ InitMailbox /\ InitConc
  /\ now = 1
  /\ campaigns = [c \in CampaignIds |-> DraftCampaignRow]
  /\ lastCall = Call("create", "c1", TRUE, "none")
  /\ \E performanceA \in PerformanceInputs, performanceB \in PerformanceInputs,
        winnerCriteria \in {"open_rate", "reply_rate"} :
       abTesting = [c \in CampaignIds |-> TrackedExperiment(performanceA, performanceB, winnerCriteria)]
  /\ config = [c \in CampaignIds |-> BaseConfig]
  /\ abCall = NoAbCall
  /\ assignLog = [c \in CampaignIds |-> [k \in Contacts |-> NoVariant]]


(* ------------------------ Mailbox.isInBusinessHours ---------------------- *)
(* Here a clock value is a number of minutes since Sunday 00:00 local time, *)
(* and a string is the sequence of its characters.                          *)
getDay(t) == (t \div 1440) % 7
getHours(t) == (t % 1440) \div 60
getMinutes(t) == t % 60

DigitChars == <<"0", "1", "2", "3", "4", "5", "6", "7", "8", "9">>
DigitValue(ch) == (CHOOSE i \in DOMAIN DigitChars : DigitChars[i] = ch) - 1

(* Number(str) of a string of decimal digits *)
RECURSIVE Number(_)
Number(str) ==
  IF str = <<>> THEN 0
  ELSE Number(SubSeq(str, 1, Len(str) - 1)) * 10 + DigitValue(str[Len(str)])

(* str.split(':') of a string with one colon *)
ColonAt(str) == CHOOSE i \in DOMAIN str : str[i] = ":"
Split(str) == <<SubSeq(str, 1, ColonAt(str) - 1), SubSeq(str, ColonAt(str) + 1, Len(str))>>

includes(array, x) == \E i \in DOMAIN array : array[i] = x

isInBusinessHours_ExclusiveEnd(mailbox, t) ==
  IF ~mailbox.sendingConfig.businessHoursOnly THEN TRUE
  ELSE IF ~includes(mailbox.sendingConfig.businessDays, getDay(t)) THEN FALSE
  ELSE LET startTime == [i \in 1 .. 2 |-> Number(Split(mailbox.sendingConfig.businessHoursStart)[i])]
           endTime == [i \in 1 .. 2 |-> Number(Split(mailbox.sendingConfig.businessHoursEnd)[i])]
           currentTime == getHours(t) * 60 + getMinutes(t)
           startMinutes == startTime[1] * 60 + startTime[2]
           endMinutes == endTime[1] * 60 + endTime[2]
       IN currentTime >= startMinutes /\ currentTime < endMinutes
isInBusinessHours(mailbox, t) ==
  IF ~mailbox.sendingConfig.businessHoursOnly THEN TRUE
  ELSE IF ~includes(mailbox.sendingConfig.businessDays, getDay(t)) THEN FALSE
  ELSE LET startTime == [i \in 1 .. 2 |-> Number(Split(mailbox.sendingConfig.businessHoursStart)[i])]
           endTime == [i \in 1 .. 2 |-> Number(Split(mailbox.sendingConfig.businessHoursEnd)[i])]
           currentTime == getHours(t) * 60 + getMinutes(t)
           startMinutes == startTime[1] * 60 + startTime[2]
           endMinutes == endTime[1] * 60 + endTime[2]
       IN currentTime >= startMinutes /\ currentTime <= endMinutes

IsInBusinessHours ==
  \E m \in MailboxIds :
    /\ MailboxExists(m)
    /\ mbCall' = [op |-> "isInBusinessHours", id |-> m, ok |-> TRUE, before |-> mailboxes[m],
                  result |-> isInBusinessHours(mailboxes[m], now)]
    /\ UNCHANGED <<now, campaignVars, rateVars, emailVars, mailboxes, abVars, concVars>>

(* Inputs: the HH:MM strings of times of day, written with and without a    *)
(* leading zero of the hour, and mailboxes whose sendingConfig carries a    *)
(* business-hours policy (createMailbox followed by updateMailbox).         *)
At(d, h, mi) == d * 1440 + h * 60 + mi
TimesOfDay == {<<0, 0>>, <<8, 59>>, <<9, 0>>, <<9, 1>>, <<12, 30>>, <<16, 59>>, <<17, 0>>, <<17, 1>>, <<23, 59>>}
ClockInputs == {At(d, hm[1], hm[2]) : d \in {0, 1, 5, 6}, hm \in TimesOfDay}

Format(h, mi) ==
  <<DigitChars[(h \div 10) + 1], DigitChars[(h % 10) + 1], ":",
    DigitChars[(mi \div 10) + 1], DigitChars[(mi % 10) + 1]>>
FormatShort(h, mi) ==
  IF h < 10 THEN SubSeq(Format(h, mi), 2, 5) ELSE Format(h, mi)

BusinessWindows ==
  { <<Format(9, 0), Format(17, 0)>>,
    <<FormatShort(9, 0), Format(17, 0)>>,
    <<Format(0, 0), Format(23, 59)>>,
    <<Format(17, 0), Format(9, 0)>>,
    <<Format(12, 30), Format(12, 30)>> }
BusinessDaysInputs == {<<1, 2, 3, 4, 5>>, <<>>, <<0, 6>>}

HoursMailbox(businessHoursOnly, window, businessDays) ==
  [status |-> ACTIVE,
   isActive |-> TRUE,
   type |-> SMTP,
   credentials |-> TRUE,
   sendingConfig |->
     [maxEmailsPerDay |-> 1000, warmupEnabled |-> FALSE, warmupIncrement |-> 10, currentWarmupRate |-> 50,
      businessHoursOnly |-> businessHoursOnly,
      businessHoursStart |-> window[1],
      businessHoursEnd |-> window[2],
      businessDays |-> businessDays]]

InitHours ==
  /\ InitRate /\ InitEmail /\ InitAbTest /\ InitConc
  /\ now \in ClockInputs
  /\ campaigns = [c \in CampaignIds |-> NotCreated]
  /\ lastCall = NoCall
  /\ \E businessHoursOnly \in BOOLEAN, window \in BusinessWindows, businessDays \in BusinessDaysInputs :
       mailboxes = [m \in MailboxIds |-> HoursMailbox(businessHoursOnly, window, businessDays)]
  /\ mbCall = NoMbCall

(* ------------- concurrent requests: findOne ... save ---------------------- *)
(* Each service call awaits the load of the campaign entity and later the    *)
(* save of the entity it modified in memory; other requests run between the *)
(* two.  inflight[r] is request r between its load and its save: entity is  *)
(* the loaded campaign (row, abTesting and config columns) with the call's  *)
(* modification applied.  started counts the calls begun, tracked[c] the    *)
(* trackVariantPerformance calls on c that completed their save.            *)
LifecycleOps == {"start", "pause", "resume", "cancel"}

LoadedEntity(c) == [row |-> campaigns[c], abTesting |-> abTesting[c], config |-> config[c]]

LifecycleRejected(op, campaign) ==
  IF op = "start" THEN ~canStart(campaign) \/ NoContacts(CalculateTotalContacts(campaign))
  ELSE IF op = "pause" THEN ~canPause(campaign)
  ELSE IF op = "resume" THEN ~canResume(campaign)
  ELSE ~canCancel(campaign)

LifecycleModified(op, campaign) ==
  IF op = "start"
  THEN [campaign EXCEPT
          !.status = ACTIVE,
          !.startedAt = now,
          !.progress = [totalContacts |-> CalculateTotalContacts(campaign), processedContacts |-> 0]]
  ELSE IF op = "pause" THEN [campaign EXCEPT !.status = PAUSED]
  ELSE IF op = "resume" THEN [campaign EXCEPT !.status = ACTIVE]
  ELSE [campaign EXCEPT !.status = CANCELLED]

(* findById and the canStart/canPause/canResume/canCancel check *)
lifecycleLoad(r, op, c) ==
  /\ inflight[r].pc = "idle"
  /\ started < MaxOps
  /\ started' = started + 1
  /\ IF ~Exists(c) \/ LifecycleRejected(op, campaigns[c])
     THEN /\ lastCall' = Call(op, c, FALSE, campaigns[c].status)
          /\ UNCHANGED inflight
     ELSE /\ inflight' = [inflight EXCEPT ![r] =
                 [pc |-> "save", op |-> op, id |-> c,
                  entity |-> [LoadedEntity(c) EXCEPT !.row = LifecycleModified(op, campaigns[c])]]]
          /\ UNCHANGED lastCall
  /\ UNCHANGED <<now, campaigns, rateVars, emailVars, mailboxVars, abVars, tracked>>

(* campaignRepository.save(campaign) *)
lifecycleSave(r) ==
  /\ inflight[r].pc = "save"
  /\ inflight[r].op \in LifecycleOps
  /\ LET c == inflight[r].id IN
     /\ campaigns' = [campaigns EXCEPT ![c] = inflight[r].entity.row]
     /\ abTesting' = [abTesting EXCEPT ![c] = inflight[r].entity.abTesting]
     /\ config' = [config EXCEPT ![c] = inflight[r].entity.config]
     /\ lastCall' = Call(inflight[r].op, c, TRUE, campaigns[c].status)
  /\ inflight' = [inflight EXCEPT ![r] = IdleRequest]
  /\ UNCHANGED <<now, rateVars, emailVars, mailboxVars, abCall, assignLog, started, tracked>>

(* findOne, the enabled and variant checks and the increment in memory *)
trackLoad(r, c, variantId, event) ==
  /\ inflight[r].pc = "idle"
  /\ started < MaxOps
  /\ started' = started + 1
  /\ IF ~AbTestEnabled(c) \/ FindVariant(abTesting[c].variants, variantId) = {}
     THEN UNCHANGED inflight
     ELSE LET i == CHOOSE j \in FindVariant(abTesting[c].variants, variantId) : TRUE
          IN inflight' = [inflight EXCEPT ![r] =
                 [pc |-> "save", op |-> "track", id |-> c,
                  entity |-> [LoadedEntity(c) EXCEPT
                                !.abTesting.variants[i].performance = Increment(@, event)]]]
  /\ abCall' = TrackCall(c, variantId, event)
  /\ UNCHANGED <<now, campaignVars, rateVars, emailVars, mailboxVars, abTesting, config,
                 assignLog, tracked>>

(* campaignRepository.save(campaign) *)
trackSave(r) ==
  /\ inflight[r].pc = "save"
  /\ inflight[r].op = "track"
  /\ LET c == inflight[r].id IN
     /\ campaigns' = [campaigns EXCEPT ![c] = inflight[r].entity.row]
     /\ abTesting' = [abTesting EXCEPT ![c] = inflight[r].entity.abTesting]
     /\ config' = [config EXCEPT ![c] = inflight[r].entity.config]
     /\ tracked' = [tracked EXCEPT ![c] = @ + 1]
  /\ inflight' = [inflight EXCEPT ![r] = IdleRequest]
  /\ UNCHANGED <<now, lastCall, rateVars, emailVars, mailboxVars, abCall, assignLog, started>>

LifecycleLoad == \E r \in Requests, op \in LifecycleOps, c \in CampaignIds : lifecycleLoad(r, op, c)
LifecycleSave == \E r \in Requests : lifecycleSave(r)
TrackLoad ==
  \E r \in Requests, c \in CampaignIds, variantId \in VariantIdInputs, event \in Events :
    trackLoad(r, c, variantId, event)
TrackSave == \E r \in Requests : trackSave(r)

(* a stored campaign in each status a lifecycle call accepts *)
InitLifecycle ==
  /\ InitRate /\ InitEmail /\ InitMailbox /\ InitAbTest /\ InitConc
  /\ now = 1
  /\ \E status \in {DRAFT, SCHEDULED, ACTIVE, PAUSED} :
       campaigns = [c \in CampaignIds |-> [DraftCampaignRow EXCEPT !.status = status]]
  /\ lastCall = Call("create", "c1", TRUE, "none")

(* an active campaign with a stored experiment and no event tracked yet *)
InitTracking ==
  /\ InitRate /\ InitEmail /\ InitMailbox /\ InitConc
  /\ now = 1
  /\ \E status \in {DRAFT, ACTIVE} :
       campaigns = [c \in CampaignIds |-> [DraftCampaignRow EXCEPT !.status = status]]
  /\ lastCall = Call("create", "c1", TRUE, "none")
  /\ abTesting = [c \in CampaignIds |->
                    StoredExperiment(TC(<<V("A", Pct(60), "sA"), V("B", Pct(40), "sB")>>, 1, "open_rate"))]
  /\ config = [c \in CampaignIds |-> BaseConfig]
  /\ abCall = NoAbCall
  /\ assignLog = [c \in CampaignIds |-> [k \in Contacts |-> NoVariant]]

NextCampaign ==
  \/ CreateCampaign
  \/ UpdateCampaign
  \/ DeleteCampaign
  \/ StartCampaign
  \/ PauseCampaign
  \/ ResumeCampaign
  \/ CancelCampaign
  \/ Tick

SpecCampaign == Init /\ [][NextCampaign]_vars

NextRate ==
  \/ CheckRateLimitRead
  \/ CheckRateLimitCreate
  \/ CheckRateLimitSave
  \/ Tick

SpecRate == Init /\ [][NextRate]_vars

NextSend ==
  \/ CheckRateLimitRead
  \/ CheckRateLimitCreate
  \/ CheckRateLimitSave
  \/ SendEmail
  \/ Tick

SpecSend == Init /\ [][NextSend]_vars

NextMailbox ==
  \/ CreateMailbox
  \/ UpdateMailbox
  \/ DeleteMailbox
  \/ SuspendMailbox
  \/ ActivateMailbox
  \/ WarmupMailbox

SpecMailbox == Init /\ [][NextMailbox]_vars

NextAbTest ==
  \/ CreateDraftCampaign
  \/ StartCampaign
  \/ CreateAbTest
  \/ AssignVariantToContact
  \/ TrackVariantPerformance
  \/ SelectWinner

SpecAbTest == Init /\ [][NextAbTest]_vars

NextLifecycle ==
  \/ LifecycleLoad
  \/ LifecycleSave

SpecLifecycle == InitLifecycle /\ [][NextLifecycle]_vars

NextTracking ==
  \/ TrackLoad
  \/ TrackSave

SpecTracking == InitTracking /\ [][NextTracking]_vars

NextAssign == AssignAnyDraw

SpecAssign == InitAssign /\ [][NextAssign]_vars

NextTrack ==
  \/ CreateDraftCampaign
  \/ StartCampaign
  \/ CreateAbTest
  \/ TrackAnyEvent

SpecTrack == Init /\ [][NextTrack]_vars

NextAnalyze ==
  \/ AnalyzeAbTestResults
  \/ SelectWinner

SpecAnalyze == InitAnalyze /\ [][NextAnalyze]_vars

NextHours == IsInBusinessHours

SpecHours == InitHours /\ [][NextHours]_vars

(* The whole program.  The services share only the clock, so their          *)
(* properties are stated under SpecCampaign, SpecRate, SpecSend,            *)
(* SpecMailbox, SpecAbTest, SpecAnalyze, SpecHours, SpecTrack and           *)
(* SpecAssign, and for interleaved requests under SpecLifecycle and         *)
(* SpecTracking.                                                            *)
Next == NextCampaign \/ NextSend \/ NextMailbox \/ NextAbTest \/ NextAnalyze \/ NextHours
          \/ NextAssign \/ NextTrack \/ NextLifecycle \/ NextTracking

Spec == Init /\ [][Next]_vars

(* ============================== properties =============================== *)
TerminalStatuses == {COMPLETED, CANCELLED, FAILED}
NonTerminalStatuses == {DRAFT, SCHEDULED, ACTIVE, PAUSED}

(* the 'From' statuses of the lifecycle events in the transition table *)
FromStatuses(op) ==
  IF op = "start" THEN {DRAFT, SCHEDULED}
  ELSE IF op = "pause" THEN {ACTIVE}
  ELSE IF op = "resume" THEN {PAUSED}
  ELSE {DRAFT, SCHEDULED, ACTIVE, PAUSED}

Predicate(op, campaign) ==
  IF op = "start" THEN canStart(campaign)
  ELSE IF op = "pause" THEN canPause(campaign)
  ELSE IF op = "resume" THEN canResume(campaign)
  ELSE canCancel(campaign)

(* the step is a service call op on campaign c *)
IsCall(op, c) == lastCall' # lastCall /\ lastCall'.op = op /\ lastCall'.id = c

(* C1: a campaign whose status is completed, cancelled or failed never      *)
(* changes status again (no service call gives it another status).          *)
C1_TerminalNeverChanges ==
  [][\A c \in CampaignIds :
       (Exists(c) /\ campaigns[c].status \in TerminalStatuses /\ campaigns'[c].status \in CampaignStatus)
         => campaigns'[c].status = campaigns[c].status]_vars

C3_WindowNeverExceedsCeiling ==
  \A t \in Times :
    /\ AdmittedInWindow(t) <= Limit
    /\ \A m \in MailboxIds : SentInWindow(m, t) <= MailboxMaxEmailsPerMinute

(* C4: two callers that both loaded the same usage row with exactly one     *)
(* unit of capacity left are never both admitted, and no stored counter     *)
(* exceeds the limit.                                                       *)
C4_LastUnitAdmitsExactlyOne ==
  /\ \A p, q \in Procs :
       (p # q /\ rl[p].row # 0 /\ rl[p].row = rl[q].row
        /\ rl[p].seen = Limit - 1 /\ rl[q].seen = Limit - 1)
         => ~(rl[p].result = "admitted" /\ rl[q].result = "admitted")
  /\ \A i \in DOMAIN usages : usages[i].count <= Limit

(* C5: a start is accepted only from draft or scheduled and only with a     *)
(* computed contact count > 0; an accepted start leaves status active,      *)
(* startedAt set and progress.totalContacts equal to the count; a start     *)
(* with count 0 is rejected and changes nothing.                            *)
C5_StartNeedsContacts ==
  [][\A c \in CampaignIds :
       (IsCall("start", c) /\ Exists(c)) =>
         LET count == CalculateTotalContacts(campaigns[c]) IN
         /\ lastCall'.ok =>
              /\ campaigns[c].status \in {DRAFT, SCHEDULED}
              /\ count > 0
              /\ campaigns'[c].status = ACTIVE
              /\ campaigns'[c].startedAt = now
              /\ campaigns'[c].progress.totalContacts = count
         /\ count = 0 => (~lastCall'.ok /\ campaigns'[c] = campaigns[c])]_vars

(* C6: a campaign becomes scheduled only from draft (or at creation) and    *)
(* only with a scheduledAt later than the time of the call.                 *)
C6_ScheduledOnlyFromDraftInFuture ==
  [][\A c \in CampaignIds :
       (campaigns'[c].status = SCHEDULED /\ campaigns[c].status # SCHEDULED)
         => /\ campaigns[c].status \in {DRAFT, "none"}
            /\ campaigns'[c].scheduledAt > now]_vars

(* C7: every cancelCampaign call on a campaign in draft, scheduled, active  *)
(* or paused is accepted and leaves the campaign cancelled.                 *)
C7_CancelFromEveryNonTerminal ==
  [][\A c \in CampaignIds :
       (IsCall("cancel", c) /\ campaigns[c].status \in NonTerminalStatuses)
         => (lastCall'.ok /\ campaigns'[c].status = CANCELLED)]_vars

(* a cancel of a paused campaign was accepted and the campaign is cancelled *)
C7_Witness ==
  \E c \in CampaignIds : lastCall = Call("cancel", c, TRUE, PAUSED) /\ campaigns[c].status = CANCELLED

(* C8: deleteCampaign removes the row only of a draft campaign and is       *)
(* rejected in every other status.                                          *)
C8_DeleteOnlyDraft ==
  [][\A c \in CampaignIds :
       /\ (Exists(c) /\ campaigns'[c] = Removed) => campaigns[c].status = DRAFT
       /\ (IsCall("delete", c) /\ campaigns[c].status # DRAFT) => ~lastCall'.ok]_vars

(* No service call produces the statuses completed or failed, and none sets *)
(* completedAt, processedContacts, limits or metrics.                       *)
NoCompletionOrFailure ==
  \A c \in CampaignIds :
    Exists(c) =>
      /\ campaigns[c].status \notin {COMPLETED, FAILED}
      /\ campaigns[c].completedAt = 0
      /\ campaigns[c].progress.processedContacts = 0
      /\ ~hasReachedLimits(campaigns[c])

(* ----------------------------- mailboxes -------------------------------- *)
IsMbCall(op, m) == mbCall' # mbCall /\ mbCall'.op = op /\ mbCall'.id = m

Rate(mailbox) == mailbox.sendingConfig.currentWarmupRate
Cap(mailbox) == mailbox.sendingConfig.maxEmailsPerDay
ReachesGraduation(mailbox) == Rate(mailbox) * 10 >= Cap(mailbox) * 8

(* C11: over any step of create, update, warmup, suspend and activate the   *)
(* warmup rate of a mailbox never decreases and never exceeds               *)
(* maxEmailsPerDay, and an accepted warmup sets it to                       *)
(* min(current + increment, cap).                                           *)
C11_WarmupRateMonotonicAndCapped ==
  [][\A m \in MailboxIds :
       /\ MailboxExists(m)' => Rate(mailboxes'[m]) <= Cap(mailboxes'[m])
       /\ (MailboxExists(m) /\ MailboxExists(m)') => Rate(mailboxes'[m]) >= Rate(mailboxes[m])
       /\ (IsMbCall("warmup", m) /\ mbCall'.ok) =>
            Rate(mailboxes'[m]) = Min(Rate(mailboxes[m]) + mailboxes[m].sendingConfig.warmupIncrement,
                                      Cap(mailboxes[m]))]_vars

(* C12: a warmup call is accepted exactly when the mailbox is warming_up,   *)
(* and is rejected in every other status.                                   *)
C12_WarmupAcceptedExactlyWhenWarmingUp ==
  [][\A m \in MailboxIds :
       IsMbCall("warmup", m) =>
         (mbCall'.ok <=> (MailboxExists(m) /\ mailboxes[m].status = WARMING_UP))]_vars

(* C13: an accepted warmup that brings the rate to at least 80% of the cap  *)
(* moves the mailbox from warming_up to active; one that leaves the rate    *)
(* below 80% of the cap leaves it warming_up; a mailbox that graduated is   *)
(* never warming_up again.                                                  *)
C13_GraduationAtEightyPercent ==
  [][\A m \in MailboxIds :
       (IsMbCall("warmup", m) /\ mbCall'.ok) =>
         /\ mailboxes[m].status = WARMING_UP
         /\ mailboxes'[m].status = IF ReachesGraduation(mailboxes'[m]) THEN ACTIVE ELSE WARMING_UP]_vars

(* C14: a mailbox can send emails, and is among the available mailboxes,    *)
(* if and only if its status is active or warming_up.                       *)
C14_EligibleIffActiveOrWarmingUp ==
  \A m \in MailboxIds :
    MailboxExists(m) =>
      /\ canSendEmails(mailboxes[m]) <=> mailboxes[m].status \in {ACTIVE, WARMING_UP}
      /\ m \in getAvailableMailboxes <=> mailboxes[m].status \in {ACTIVE, WARMING_UP}

(* ----------------------------- A/B testing ------------------------------ *)
IsAbCall(op, c) == abCall' # abCall /\ abCall'.op = op /\ abCall'.id = c

ValidExperiment(ab) ==
  /\ Len(ab.variants) >= 2
  /\ Len(ab.variants) <= 5
  /\ \A i \in DOMAIN ab.variants : ab.variants[i].weight >= 0 /\ ab.variants[i].weight <= Pct(100)
  /\ Abs(SumWeights(ab.variants) - Pct(100)) <= 10

(* C15: every experiment stored on a campaign has 2 to 5 variants, each     *)
(* weight within 0-100 and a weight sum within 0.01 of 100; createAbTest is *)
(* accepted only on a draft campaign, and a rejected createAbTest leaves    *)
(* the stored experiment unchanged.                                         *)
C15_StoredExperimentIsValid ==
  /\ [](\A c \in CampaignIds : AbTestEnabled(c) => ValidExperiment(abTesting[c]))
  /\ [][\A c \in CampaignIds :
          IsAbCall("createAbTest", c) =>
            IF abCall'.ok THEN Exists(c) /\ campaigns[c].status = DRAFT
            ELSE abTesting'[c] = abTesting[c]]_vars

(* C16: once winnerSelected is set, every further selectWinner call on the  *)
(* campaign is rejected and leaves the recorded winner and the campaign's   *)
(* config unchanged.                                                        *)
C16_SelectWinnerIsOneShot ==
  [][\A c \in CampaignIds :
       (IsAbCall("selectWinner", c) /\ AbTestEnabled(c) /\ abTesting[c].winnerSelected # NoVariant) =>
         /\ ~abCall'.ok
         /\ abTesting'[c].winnerSelected = abTesting[c].winnerSelected
         /\ config'[c] = config[c]]_vars

(* C17: a selectWinner call made while the total of the sent counters is    *)
(* below testSize is rejected and records no winner; selectWinner is        *)
(* accepted only where getAbTestStatus reports canSelectWinner.             *)
C17_SelectWinnerNeedsTestSize ==
  [][\A c \in CampaignIds :
       (IsAbCall("selectWinner", c) /\ AbTestEnabled(c)) =>
         /\ ~isComplete(abTesting[c]) =>
              (~abCall'.ok /\ abTesting'[c].winnerSelected = abTesting[c].winnerSelected)
         /\ abCall'.ok => canSelectWinner(abTesting[c])]_vars

Score(ab, variant) ==
  calculateOverallScore(calculateVariantMetrics(variant.performance), ab.winnerCriteria)

BestVariants(ab) ==
  {ab.variants[i].id : i \in {j \in DOMAIN ab.variants :
     \A k \in DOMAIN ab.variants : Score(ab, ab.variants[k]) <= Score(ab, ab.variants[j])}}

IsScenario(ab) ==
  /\ ab.winnerCriteria = "open_rate"
  /\ Len(ab.variants) = 2
  /\ ab.variants[1].performance = Perf(TRUE, 100, 40, 0)
  /\ ab.variants[2].performance = Perf(TRUE, 80, 48, 0)

(* C18: the variant recorded by selectWinner, and the variant the analysis  *)
(* marks as winner, is one with the highest composite score under the       *)
(* campaign's winner criterion; for A(sent 100, opened 40) and              *)
(* B(sent 80, opened 48) under open_rate, B scores higher and is the        *)
(* winner.                                                                  *)
C18_WinnerHasHighestScore ==
  [][\A c \in CampaignIds :
       /\ (IsAbCall("selectWinner", c) /\ abCall'.ok) =>
            abTesting'[c].winnerSelected \in BestVariants(abTesting'[c])
       /\ (IsAbCall("analyze", c) /\ abCall'.ok /\ abCall'.result # NoVariant) =>
            abCall'.result \in BestVariants(abTesting[c])
       /\ (IsAbCall("analyze", c) /\ AbTestEnabled(c) /\ IsScenario(abTesting[c])) =>
            /\ BestVariants(abTesting[c]) = {VariantId(2)}
            /\ abCall'.result = VariantId(2)]_vars

(* C19: once a winner is selected, assignVariantToContact returns no        *)
(* variant id.                                                              *)
C19_NoAssignmentAfterWinner ==
  [][\A c \in CampaignIds :
       (IsAbCall("assign", c) /\ AbTestEnabled(c) /\ abTesting[c].winnerSelected # NoVariant) =>
         abCall'.result = NoVariant]_vars

(* C20: for a fixed campaign and contact every assignVariantToContact call  *)
(* returns the variant id the first call returned.                          *)
C20_AssignmentIsSticky ==
  [][\A c \in CampaignIds, k \in Contacts :
       (IsAbCall("assign", c) /\ abCall'.contact = k /\ abCall'.ok /\ assignLog[c][k] # NoVariant) =>
         abCall'.result = assignLog[c][k]]_vars

(* ------------------ mailboxes: ceilings and suspension ------------------ *)
(* C21: the daily ceiling of a mailbox is min(maxEmailsPerDay,              *)
(* currentWarmupRate) while its status is warming_up and maxEmailsPerDay in *)
(* every other status.                                                      *)
C21_DailyLimitFollowsStatus ==
  \A m \in MailboxIds :
    MailboxExists(m) =>
      currentDailyLimit(mailboxes[m]) =
        IF mailboxes[m].status = WARMING_UP
        THEN Min(Cap(mailboxes[m]), Rate(mailboxes[m]))
        ELSE Cap(mailboxes[m])

(* C28: a suspended mailbox becomes active only through the activation      *)
(* call; updateMailbox and warmupMailbox never change the status of a       *)
(* suspended mailbox.                                                       *)
C28_SuspendedLeavesOnlyByActivation ==
  [][\A m \in MailboxIds :
       (MailboxExists(m) /\ mailboxes[m].status = SUSPENDED) =>
         /\ (MailboxExists(m)' /\ mailboxes'[m].status = ACTIVE) => IsMbCall(ACTIVE, m)
         /\ (IsMbCall("update", m) \/ IsMbCall("warmup", m)) => mailboxes'[m].status = SUSPENDED]_vars

(* C29: after sendEmail returns, the email row it created has status sent   *)
(* when it returned success and a failure status, never pending, when it    *)
(* returned success = false.                                                *)
C29_CreatedRecordMatchesResult ==
  sendLog.email # 0 =>
    IF sendLog.success THEN emails[sendLog.email].status = "sent"
    ELSE emails[sendLog.email].status \notin {"sent", "pending"}

(* C22: with businessHoursOnly set, a mailbox is in business hours exactly  *)
(* when the weekday is one of its businessDays and the time of day lies     *)
(* between businessHoursStart and businessHoursEnd, both inclusive, at      *)
(* minute resolution; without it the mailbox is always in business hours.   *)
C22_BusinessHoursInclusive ==
  [][\A m \in MailboxIds :
       IsMbCall("isInBusinessHours", m) =>
         LET sc == mailboxes[m].sendingConfig
             tod == getHours(now) * 60 + getMinutes(now)
         IN \E start \in TimesOfDay, end \in TimesOfDay :
              /\ sc.businessHoursStart \in {Format(start[1], start[2]), FormatShort(start[1], start[2])}
              /\ sc.businessHoursEnd \in {Format(end[1], end[2]), FormatShort(end[1], end[2])}
              /\ mbCall'.result <=>
                   ( ~sc.businessHoursOnly
                     \/ ( /\ \E i \in DOMAIN sc.businessDays : sc.businessDays[i] = getDay(now)
                          /\ start[1] * 60 + start[2] <= tod
                          /\ tod <= end[1] * 60 + end[2] ) )]_vars

C22_Witness ==
  /\ mbCall.op = "isInBusinessHours"
  /\ mbCall.before.sendingConfig.businessHoursOnly
  /\ mbCall.before.sendingConfig.businessHoursEnd = Format(getHours(now), getMinutes(now))
  /\ mbCall.before.sendingConfig.businessHoursStart # mbCall.before.sendingConfig.businessHoursEnd
  /\ mbCall.result

(* A step of trackVariantPerformance on campaign c. *)
IsTrack(c) ==
  /\ abCall'.op = "track"
  /\ abCall'.id = c
  /\ <<abCall, abTesting>>' # <<abCall, abTesting>>

Counter(performance, event) ==
  IF ~performance.defined THEN 0
  ELSE IF event = "sent" THEN performance.sent
  ELSE IF event = "opened" THEN performance.opened
  ELSE IF event = "clicked" THEN performance.clicked
  ELSE IF event = "replied" THEN performance.replied
  ELSE IF event = "unsubscribed" THEN performance.unsubscribed
  ELSE performance.bounced

(* C25: trackVariantPerformance for one of the six events adds 1 to exactly *)
(* that counter of the named variant and leaves its other counters, the     *)
(* other variants, the other campaigns, the config and the campaign rows    *)
(* (status included) as they were; when the experiment is not enabled or    *)
(* the variant id is unknown it changes nothing.                            *)
C25_TrackIncrementsExactlyOneCounter ==
  [][\A c \in CampaignIds : IsTrack(c) =>
       LET variantId == abCall'.result
           event == abCall'.event
       IN /\ campaigns' = campaigns
          /\ config' = config
          /\ \A d \in CampaignIds \ {c} : abTesting'[d] = abTesting[d]
          /\ IF ~AbTestEnabled(c) \/ FindVariant(abTesting[c].variants, variantId) = {}
             THEN abTesting'[c] = abTesting[c]
             ELSE /\ Len(abTesting'[c].variants) = Len(abTesting[c].variants)
                  /\ [abTesting'[c] EXCEPT !.variants = <<>>] = [abTesting[c] EXCEPT !.variants = <<>>]
                  /\ \A i \in 1 .. Len(abTesting[c].variants) :
                       LET old == abTesting[c].variants[i]
                           new == abTesting'[c].variants[i]
                       IN IF old.id # variantId THEN new = old
                          ELSE /\ [new EXCEPT !.performance = NoPerformance]
                                    = [old EXCEPT !.performance = NoPerformance]
                               /\ \A e \in AllEvents :
                                    Counter(new.performance, e)
                                      = Counter(old.performance, e) + (IF e = event THEN 1 ELSE 0)]_vars

C25_Witness ==
  /\ abCall.op = "track"
  /\ abCall.event = "clicked"
  /\ AbTestEnabled(abCall.id)
  /\ campaigns[abCall.id].status = ACTIVE
  /\ \E i \in 1 .. Len(abTesting[abCall.id].variants) :
       /\ abTesting[abCall.id].variants[i].id = abCall.result
       /\ Counter(abTesting[abCall.id].variants[i].performance, "clicked") = 1
       /\ Counter(abTesting[abCall.id].variants[i].performance, "sent") = 1

ContentFields == {"subject", "htmlContent"}

(* C24: a successful selectWinner leaves in campaign.config the variant's   *)
(* value for every content field the variant defines and leaves every other *)
(* field of campaign.config as it was; with an unknown variant id the call  *)
(* fails and the campaign is unchanged.                                     *)
C24_WinnerContentCopied ==
  [][\A c \in CampaignIds : IsAbCall("selectWinner", c) =>
       LET found == IF AbTestEnabled(c)
                    THEN FindVariant(abTesting[c].variants, abCall'.result) ELSE {}
       IN IF found = {}
          THEN ~abCall'.ok /\ abTesting' = abTesting /\ config' = config /\ campaigns' = campaigns
          ELSE /\ abCall'.ok
               /\ \A i \in found :
                    \A f \in ContentFields :
                      config'[c][f] = IF abTesting[c].variants[i].config[f] # Undefined
                                      THEN abTesting[c].variants[i].config[f]
                                      ELSE config[c][f]
               /\ config'[c].trackingEnabled = config[c].trackingEnabled]_vars

Cumulative(variants, i) == SumWeights(SubSeq(variants, 1, i))

(* the positions whose cumulative weight is at least the draw r *)
Reaching(variants, r) == {i \in DOMAIN variants : Cumulative(variants, i) >= r}

FirstOf(S) == CHOOSE i \in S : \A j \in S : i <= j

VariantIds(variants) == {variants[i].id : i \in DOMAIN variants}

(* C23 as stated: for every draw r and valid experiment the call returns    *)
(* the first variant, in stored order, whose cumulative weight is >= r, and *)
(* the id returned is the id of one of the campaign's variants.             *)
C23_ReturnsFirstReaching ==
  [][\A c \in CampaignIds : (IsAbCall("assign", c) /\ abCall'.ok) =>
       LET variants == abTesting[c].variants
           reaching == Reaching(variants, abCall'.random)
       IN /\ reaching # {}
          /\ abCall'.result = variants[FirstOf(reaching)].id
          /\ abCall'.result \in VariantIds(variants)]_vars

(* C23 amended: the call returns the first variant whose cumulative weight  *)
(* is >= r when there is one and the first stored variant when no           *)
(* cumulative weight reaches r; the id is always one of the variants'.      *)
C23_ReturnsFirstReachingOrFirst ==
  [][\A c \in CampaignIds : (IsAbCall("assign", c) /\ abCall'.ok) =>
       LET variants == abTesting[c].variants
           reaching == Reaching(variants, abCall'.random)
       IN /\ abCall'.result = IF reaching # {} THEN variants[FirstOf(reaching)].id
                                ELSE variants[1].id
          /\ abCall'.result \in VariantIds(variants)]_vars

C23_Witness ==
  /\ abCall.op = "assign"
  /\ abCall.ok
  /\ abCall.random = Pct(60)
  /\ abTesting[abCall.id].variants[1].weight = Pct(60)
  /\ abTesting[abCall.id].variants[2].weight = Pct(40)
  /\ abCall.result = VariantId(1)

(* C30: a variant whose weight is 0 is never the variant returned by        *)
(* assignVariantToContact, whatever the draw and wherever the variant is    *)
(* in the stored order.                                                     *)
C30_ZeroWeightNeverReturned ==
  [][\A c \in CampaignIds : (IsAbCall("assign", c) /\ abCall'.ok) =>
       \A i \in DOMAIN abTesting[c].variants :
         abTesting[c].variants[i].id = abCall'.result => abTesting[c].variants[i].weight # 0]_vars

(* C26: under any interleaving of the load and save steps of concurrent     *)
(* startCampaign, pauseCampaign, resumeCampaign and cancelCampaign calls,   *)
(* once the stored status is cancelled (a cancelCampaign call has saved) it *)
(* stays cancelled: no call that loaded the campaign earlier writes active  *)
(* or paused over it.                                                       *)
C26_CancelledIsFinal ==
  [][\A c \in CampaignIds :
       (Exists(c) /\ campaigns[c].status = CANCELLED) => campaigns'[c].status = CANCELLED]_vars

(* C27: when every trackVariantPerformance call that was started has        *)
(* completed, the performance counters of the campaign's variants have      *)
(* grown by exactly the number of calls that saved, whatever the            *)
(* interleaving of their load and save steps.                               *)
C27_NoTrackedEventLost ==
  (\A r \in Requests : inflight[r].pc = "idle") =>
    \A c \in CampaignIds :
      AbTestEnabled(c) => TotalEvents(abTesting[c].variants) = tracked[c]

====
